---------------------------- MODULE Spec2Model ----------------------------
(***************************************************************************)
(* RT-Audit workload generator (lucabe72/rt-audit).                        *)
(*                                                                         *)
(* generate_taskset.py: main() merges the configuration, validates it,     *)
(* seeds the random module and calls generate_taskset(), which checks the  *)
(* feasibility of the request, draws UUniFast vectors until one respects   *)
(* max_task_util (at most max_attempts times) and builds one rt-app task   *)
(* per utilization.  generate_json.py: generate_json() builds the same     *)
(* kind of task entries from "c p d" text lines.                           *)
(*                                                                         *)
(* Reals (Python floats) are modelled as exact rationals in lowest terms,  *)
(* [n |-> numerator, d |-> denominator > 0]; floating-point rounding is    *)
(* not modelled.  A Python value that may be None is a sequence: <<>> is   *)
(* None and <<v>> is the value v.                                          *)
(***************************************************************************)
EXTENDS Integers, Sequences, FiniteSets, TLC

(***************************************************************************)
(* Bounds of the model.                                                    *)
(***************************************************************************)
\* largest num_tasks
MaxTasks == 3
\* random.random() returns (a / DrawDen) ^ RootLcm for a in 0 .. DrawDen-1
DrawDen == 2
\* largest period_max_ms
MaxPeriodMs == 2
\* explicit seeds are 1 .. MaxSeed
MaxSeed == 2
\* longest taskset text given to generate_json, in lines
MaxLines == 2

(***************************************************************************)
(* Program constants.                                                      *)
(***************************************************************************)
max_attempts == 1000
MinRuntimeUs == 10
UsPerMs == 1000

None == << >>
Some(v) == << v >>

(***************************************************************************)
(* State.                                                                  *)
(***************************************************************************)
VARIABLES
    pc,             \* where the program is
    args,           \* the parameters as merged from the config file and the command line
    config_found,   \* main: no --config was given, or the file it names exists
    verbose,        \* args.verbose
    config_params,  \* main: the config_params dictionary
    out,            \* what was printed: a set of [msg, val]
    exit_status,    \* None while running; Some(0): main returned; Some(-1): sys.exit(-1)
    rng,            \* the random module's generator
    attempts,       \* generate_taskset: attempts
    task_utils,     \* generate_taskset: task_utils
    tasks,          \* generate_taskset / generate_json: config["tasks"], in insertion order
    result,         \* what generate_taskset / generate_json returned: None or Some(tasks)
    failure,        \* which "return None" of generate_taskset ran: "none", "infeasible", "exhausted"
    accepted_at,    \* the value of attempts when the loop was left by "break", 0 if it was not
    taskset,        \* generate_json: the lines of the taskset text, each <<c, p, d>>
    run,            \* 1 in the first run of the program, 2 in its repetition
    saved           \* what the first run ended with

vars == << pc, args, config_found, verbose, config_params, out, exit_status, rng,
           attempts, task_utils, tasks, result, failure, accepted_at, taskset, run, saved >>

Msg(m, v) == [msg |-> m, val |-> v]

(***************************************************************************)
(* Exact rational arithmetic.                                              *)
(***************************************************************************)
Abs(x) == IF x < 0 THEN -x ELSE x

RECURSIVE Gcd(_, _)
Gcd(a, b) == IF b = 0 THEN a ELSE Gcd(b, a % b)

Lcm(a, b) == (a * b) \div Gcd(a, b)

RECURSIVE LcmUpTo(_)
LcmUpTo(k) == IF k <= 1 THEN 1 ELSE Lcm(k, LcmUpTo(k - 1))

RECURSIVE Pow(_, _)
Pow(x, k) == IF k = 0 THEN 1 ELSE x * Pow(x, k - 1)

Rat(n, d) ==
    LET g == Gcd(Abs(n), d)
    IN  [n |-> n \div g, d |-> d \div g]

RInt(k) == [n |-> k, d |-> 1]
RMul(a, b) ==
    LET g1 == Gcd(Abs(a.n), b.d)
        g2 == Gcd(Abs(b.n), a.d)
    IN  [n |-> (a.n \div g1) * (b.n \div g2), d |-> (a.d \div g2) * (b.d \div g1)]
RAdd(a, b) ==
    LET g == Gcd(a.d, b.d)
    IN  Rat(a.n * (b.d \div g) + b.n * (a.d \div g), (a.d \div g) * b.d)
RSub(a, b) == RAdd(a, [n |-> -b.n, d |-> b.d])
RDivInt(a, k) == Rat(a.n, a.d * k)
RLe(a, b) == a.n * b.d <= b.n * a.d
RLt(a, b) == a.n * b.d < b.n * a.d
RGt(a, b) == RLt(b, a)
\* math.floor
RFloor(a) == a.n \div a.d

\* the integer q with q ^ k = x (x is a perfect k-th power)
IRoot(x, k) ==
    IF k = 1 \/ x <= 1 THEN x
    ELSE CHOOSE q \in 1 .. (x \div 2) : Pow(q, k) = x
\* r ** (1.0 / k), exact for the draws of the model
RRoot(r, k) == [n |-> IRoot(r.n, k), d |-> IRoot(r.d, k)]

RSum(seq) ==
    LET RECURSIVE Acc(_, _)
        Acc(j, s) == IF j > Len(seq) THEN s
                     ELSE Acc(j + 1, RAdd(s, seq[j]))
    IN  Acc(1, RInt(0))

(***************************************************************************)
(* The values random.random() may return: a finite subset of [0, 1) whose  *)
(* k-th roots, k < MaxTasks, are rational.                                 *)
(***************************************************************************)
RootLcm == LcmUpTo(MaxTasks - 1)
Draws == { Rat(Pow(a, RootLcm), Pow(DrawDen, RootLcm)) : a \in 0 .. DrawDen - 1 }
\* the n-1 values one call of uunifast(n, .) draws
DrawSeqs(n) == [1 .. n - 1 -> Draws]

(***************************************************************************)
(* uunifast(n, u_total), on the sequence rs of the values it draws.        *)
(***************************************************************************)
RECURSIVE UUniFastFrom(_, _, _, _, _)
UUniFastFrom(i, n, sum_u, rs, utilizations) ==
    IF i >= n
    THEN Append(utilizations, sum_u)
    ELSE LET next_sum_u == RMul(sum_u, RRoot(rs[i], n - i))
         IN  UUniFastFrom(i + 1, n, next_sum_u, rs,
                          Append(utilizations, RSub(sum_u, next_sum_u)))

\* the final "utilizations.append(sum_u)" left out
uunifastNoRemainder(n, u_total, rs) ==
    SubSeq(UUniFastFrom(1, n, u_total, rs, << >>), 1, n - 1)

uunifast(n, u_total, rs) == UUniFastFrom(1, n, u_total, rs, << >>)

\* the check written with any() instead of all()
AnyWithin(utils, max_util) ==
    \E j \in 1 .. Len(utils) : RLe(utils[j], max_util)

\* all(u <= max_task_util for u in task_utils)
AllWithin(utils, max_util) ==
    \A j \in 1 .. Len(utils) : RLe(utils[j], max_util)


(***************************************************************************)
(* One rt-app task entry.  name and phase are the numbers in "task_<name>" *)
(* and "phase_<phase>"; event is the key of the workload event and value   *)
(* its value (actual_runtime_us); floats tells whether the dl-* values and *)
(* the timer period are Python floats (rendered "750.0") or ints ("750").  *)
(***************************************************************************)
EventKey(event_type) == IF event_type = "run" THEN "run" ELSE "runtime"

\* the minimum runtime not enforced
ActualRuntimeNoFloor(dl_runtime_us, system_overhead) ==
    RFloor(RMul(RInt(dl_runtime_us), RSub(RInt(1), system_overhead)))

\* generate_taskset: actual_runtime_us of a task with the given dl_runtime_us
ActualRuntime(dl_runtime_us, system_overhead) ==
    LET actual_runtime_us ==
            RFloor(RMul(RInt(dl_runtime_us), RSub(RInt(1), system_overhead)))
    IN  IF actual_runtime_us < MinRuntimeUs THEN MinRuntimeUs ELSE actual_runtime_us

\* generate_taskset: dl_runtime_us
DlRuntime(utilization, period_us) == RFloor(RMul(utilization, RInt(period_us)))

\* every task given the first utilization
TaskConfigFirstUtil(i, utils, period_ms, system_overhead, event_type) ==
    LET utilization   == utils[1]
        period_us     == period_ms * UsPerMs
        dl_runtime_us == RFloor(RMul(utilization, RInt(period_us)))
    IN  [name         |-> i,
         dl_runtime   |-> dl_runtime_us,
         dl_period    |-> period_us,
         dl_deadline  |-> period_us,
         phase        |-> i,
         event        |-> EventKey(event_type),
         value        |-> ActualRuntime(dl_runtime_us, system_overhead),
         timer_period |-> period_us,
         floats       |-> FALSE]

\* generate_taskset: the body of "for i in range(num_tasks)", on the value
\* period_ms that random.randint(period_min_ms, period_max_ms) returned
TaskConfig(i, utils, period_ms, system_overhead, event_type) ==
    LET utilization   == utils[i + 1]
        period_us     == period_ms * UsPerMs
        dl_runtime_us == DlRuntime(utilization, period_us)
    IN  [name         |-> i,
         dl_runtime   |-> dl_runtime_us,
         dl_period    |-> period_us,
         dl_deadline  |-> period_us,
         phase        |-> i,
         event        |-> EventKey(event_type),
         value        |-> ActualRuntime(dl_runtime_us, system_overhead),
         timer_period |-> period_us,
         floats       |-> FALSE]

\* generate_json: actual_runtime_us
JsonActualRuntime(dl_runtime_us, system_overhead) ==
    LET actual_runtime_us ==
            RFloor(RMul(RInt(dl_runtime_us), RSub(RInt(1), system_overhead)))
    IN  IF actual_runtime_us < MinRuntimeUs THEN MinRuntimeUs ELSE actual_runtime_us

\* generate_json: the body of "for line in ...", on the parsed line
\* task = <<c, p, d>> and the value i has when the loop body starts
JsonTaskConfig(i, task, system_overhead, event_type) ==
    LET period_us     == task[2]
        dl_runtime_us == task[1]
    IN  [name         |-> i,
         dl_runtime   |-> dl_runtime_us,
         dl_period    |-> period_us,
         dl_deadline  |-> period_us,
         phase        |-> i + 1,
         event        |-> EventKey(event_type),
         value        |-> JsonActualRuntime(dl_runtime_us, system_overhead),
         timer_period |-> period_us,
         floats       |-> TRUE]

(***************************************************************************)
(* The random module: rng.seed is the seed the generator was last seeded   *)
(* with (0 before any random.seed call) and rng.pos the number of  *)
(* values drawn since.  A seeded generator is deterministic: the value it  *)
(* returns is a function of its state, RandomBits.                         *)
(***************************************************************************)
\* the generator before any random.seed call (seeded by the interpreter)
Unseeded == [seed |-> 0, pos |-> 0]
RandomBits(g) == (g.seed * 5 + g.pos * 3 + (g.pos \div 2) * g.seed) % 7
\* random.random() of a seeded generator in state g
SeededRandom(g) ==
    Rat(Pow(RandomBits(g) % DrawDen, RootLcm), Pow(DrawDen, RootLcm))
\* the n-1 values uunifast(n, .) draws from a seeded generator in state g
SeededDraws(g, n) ==
    [j \in 1 .. n - 1 |-> SeededRandom([seed |-> g.seed, pos |-> g.pos + j - 1])]
\* random.randint(a, b) of a seeded generator in state g
SeededRandint(g, a, b) == a + (RandomBits(g) % (b - a + 1))
\* the generator left as it is
SeedStateKept(s) == rng

\* random.seed(s)
SeedState(s) == [seed |-> s, pos |-> 0]


(***************************************************************************)
(* Inputs.                                                                 *)
(***************************************************************************)
Utilizations == { Rat(1, 2), Rat(1, 1) }
MaxUtils == { Rat(1, 2), Rat(4, 5) }
Overheads == { Rat(0, 1), Rat(1, 50), Rat(99, 100) }
EventTypes == { "run", "runtime", "loop" }
Distributions == { None, Some("unif"), Some("uniform"), Some("logunif") }
Granularities == { None, Some(1), Some(2) }
Seeds == 1 .. MaxSeed
\* the values time.time() may return
ClockValues == { MaxSeed + 1, MaxSeed + 2 }
PeriodRanges == { pr \in (1 .. MaxPeriodMs) \X (1 .. MaxPeriodMs) : pr[1] <= pr[2] }
\* dl-runtime values of the lines given to generate_json
JsonRuntimes == { 0, 5, 10, 750 }

NominalParams ==
    [cpus                |-> Some(2),
     tasks               |-> 2,
     taskset_utilization |-> Rat(1, 1),
     max_util            |-> Rat(4, 5),
     period_min          |-> 1,
     period_max          |-> 1,
     period_gran         |-> None,
     period_distribution |-> None,
     seed                |-> Some(1),
     system_overhead     |-> Rat(1, 50),
     event_type          |-> "runtime"]

\* runs that differ in what main() validates
ConfigInputs ==
    { [NominalParams EXCEPT !.cpus = c, !.period_gran = g,
                            !.period_distribution = d, !.seed = s] :
        c \in { None, Some(2) }, g \in Granularities, d \in Distributions,
        s \in { None } \cup { Some(x) : x \in Seeds } }

\* runs that differ in what the rejection sampling depends on
SamplingInputs ==
    { [NominalParams EXCEPT !.tasks = n, !.taskset_utilization = u, !.max_util = m] :
        n \in 1 .. MaxTasks, u \in Utilizations, m \in MaxUtils }

\* runs that differ in what the tasks are built from
TaskInputs ==
    { [NominalParams EXCEPT !.tasks = n, !.max_util = Rat(1, 1),
                            !.period_min = pr[1], !.period_max = pr[2],
                            !.system_overhead = o, !.event_type = e] :
        n \in 1 .. MaxTasks, pr \in PeriodRanges, o \in Overheads, e \in EventTypes }

\* runs of the seeded generator
SeededInputs ==
    { [NominalParams EXCEPT !.tasks = n, !.max_util = m, !.period_max = MaxPeriodMs,
                            !.seed = s] :
        n \in 1 .. MaxTasks, m \in MaxUtils,
        s \in { None } \cup { Some(x) : x \in Seeds } }

JsonInputs ==
    { [NominalParams EXCEPT !.system_overhead = o, !.event_type = e] :
        o \in Overheads, e \in EventTypes }

JsonLine == { << c, p * UsPerMs, p * UsPerMs >> : c \in JsonRuntimes, p \in 1 .. MaxPeriodMs }
JsonTasksets == UNION { [1 .. k -> JsonLine] : k \in 1 .. MaxLines }

NoSaved == [result |-> None, task_utils |-> << >>, failure |-> "none", seed |-> None,
            pos |-> 0, exit_status |-> None]

InitCommon ==
    /\ config_params = args
    /\ out = {}
    /\ exit_status = None
    /\ rng = Unseeded
    /\ attempts = 0
    /\ task_utils = << >>
    /\ tasks = << >>
    /\ result = None
    /\ failure = "none"
    /\ accepted_at = 0
    /\ run = 1
    /\ saved = NoSaved

\* generate_taskset.py is started
InitMain ==
    /\ pc = "load"
    /\ \/ args \in ConfigInputs /\ config_found \in BOOLEAN /\ verbose \in BOOLEAN
       \/ args \in SamplingInputs /\ config_found = TRUE /\ verbose = FALSE
       \/ args \in TaskInputs /\ config_found = TRUE /\ verbose = FALSE
    /\ taskset = << >>
    /\ InitCommon

\* generate_json() is called
InitJson ==
    /\ pc = "json"
    /\ args \in JsonInputs
    /\ config_found = TRUE
    /\ verbose = FALSE
    /\ taskset \in JsonTasksets
    /\ InitCommon

Init == InitMain \/ InitJson

InitSeeded ==
    /\ pc = "load"
    /\ args \in SeededInputs
    /\ config_found = TRUE
    /\ verbose = FALSE
    /\ taskset = << >>
    /\ InitCommon


(***************************************************************************)
(* main() of generate_taskset.py.                                          *)
(***************************************************************************)
GenLocals == << attempts, task_utils, tasks, result, failure, accepted_at >>
RunVars == << args, config_found, verbose, taskset, run, saved >>

\* the configuration file is loaded and the command line overrides it
LoadConfig ==
    /\ pc = "load"
    /\ IF ~config_found
       THEN /\ out' = out \cup { Msg("config_not_found", 0) }
            /\ exit_status' = Some(0)
            /\ pc' = "exit"
       ELSE /\ out' = out \cup
                  (IF verbose /\ config_params.seed # None
                   THEN { Msg("seed", config_params.seed[1]) } ELSE {})
            /\ exit_status' = exit_status
            /\ pc' = "defaults"
    /\ UNCHANGED << config_params, rng, GenLocals, RunVars >>

\* "for key, value in defaults.items()": the missing parameters get their defaults
SetDefaults ==
    /\ pc = "defaults"
    /\ \E now \in ClockValues :
          config_params' =
              [config_params EXCEPT
                  !.period_gran = IF @ = None THEN Some(1) ELSE @,
                  !.period_distribution = IF @ = None THEN Some("unif") ELSE @,
                  !.seed = IF @ = None THEN Some(now) ELSE @]
    /\ out' = out \cup
          (IF verbose /\ config_params.seed = None
           THEN { Msg("seed", config_params'.seed[1]) } ELSE {})
    /\ pc' = "validate"
    /\ UNCHANGED << exit_status, rng, GenLocals, RunVars >>

\* the granularity check left out
ConfigRejectedDistributionOnly(cp) == cp.period_distribution # Some("unif")

\* the two checks that end in sys.exit(-1)
ConfigRejected(cp) ==
    \/ cp.period_distribution # Some("unif")
    \/ cp.period_gran # Some(1)

Validate ==
    /\ pc = "validate"
    /\ IF ConfigRejected(config_params)
       THEN /\ out' = out \cup { Msg("not_supported", 0) }
            /\ exit_status' = Some(-1)
            /\ pc' = "exit"
       ELSE /\ out' = out
            /\ exit_status' = exit_status
            /\ pc' = "required"
    /\ UNCHANGED << config_params, rng, GenLocals, RunVars >>

\* "if param not in config_params" for one of the required parameters
MissingRequired(cp) == cp.cpus = None

CheckRequired ==
    /\ pc = "required"
    /\ IF MissingRequired(config_params)
       THEN /\ out' = out \cup { Msg("missing_parameter", 0) }
            /\ exit_status' = Some(0)
            /\ pc' = "exit"
       ELSE /\ out' = out
            /\ exit_status' = exit_status
            /\ pc' = "seed"
    /\ UNCHANGED << config_params, rng, GenLocals, RunVars >>

\* random.seed(config_params['seed']), then generate_taskset is called
SeedRandom ==
    /\ pc = "seed"
    /\ rng' = SeedState(config_params.seed[1])
    /\ pc' = "precheck"
    /\ UNCHANGED << config_params, out, exit_status, GenLocals, RunVars >>

(***************************************************************************)
(* generate_taskset().                                                     *)
(***************************************************************************)
num_tasks == config_params.tasks
total_utilization == config_params.taskset_utilization
max_task_util == config_params.max_util

\* the utilization compared with a whole CPU instead of max_task_util
InfeasibleAgainstOne(n, u_total, max_util) == RGt(RDivInt(u_total, n), RInt(1))

\* "min_required_util = total_utilization / num_tasks" and the test on it
Infeasible(n, u_total, max_util) == RGt(RDivInt(u_total, n), max_util)

\* what the two failure branches return
ReturnInfeasible == None
ReturnExhausted == None

\* "if min_required_util > max_task_util: ... return None"
Precheck ==
    /\ pc = "precheck"
    /\ IF Infeasible(num_tasks, total_utilization, max_task_util)
       THEN /\ out' = out \cup { Msg("impossible_constraint", 0) }
            /\ result' = ReturnInfeasible
            /\ failure' = "infeasible"
            /\ pc' = "returned"
       ELSE /\ out' = out
            /\ result' = result
            /\ failure' = failure
            /\ pc' = "sample"
    /\ attempts' = IF pc' = "sample" THEN 0 ELSE attempts
    /\ UNCHANGED << config_params, exit_status, rng, task_utils, tasks, accepted_at, RunVars >>

\* the loop written "while attempts <= max_attempts"
AttemptWithLateStop(rs) ==
    /\ pc = "sample"
    /\ attempts <= max_attempts
    /\ attempts' = attempts + 1
    /\ task_utils' = uunifast(num_tasks, total_utilization, rs)
    /\ rng' = [rng EXCEPT !.pos = @ + (num_tasks - 1)]
    /\ IF AllWithin(task_utils', max_task_util)
       THEN /\ out' = out \cup (IF verbose THEN { Msg("valid_utilizations", 0) } ELSE {})
            /\ accepted_at' = attempts'
            /\ pc' = "after_loop"
       ELSE /\ out' = out
            /\ accepted_at' = accepted_at
            /\ pc' = IF attempts' <= max_attempts THEN "sample" ELSE "after_loop"
    /\ UNCHANGED << config_params, exit_status, tasks, result, failure, RunVars >>

\* one iteration of "while attempts < max_attempts", uunifast drawing rs
AttemptWith(rs) ==
    /\ pc = "sample"
    /\ attempts < max_attempts
    /\ attempts' = attempts + 1
    /\ task_utils' = uunifast(num_tasks, total_utilization, rs)
    /\ rng' = [rng EXCEPT !.pos = @ + (num_tasks - 1)]
    /\ IF AllWithin(task_utils', max_task_util)
       THEN /\ out' = out \cup (IF verbose THEN { Msg("valid_utilizations", 0) } ELSE {})
            /\ accepted_at' = attempts'
            /\ pc' = "after_loop"
       ELSE /\ out' = out
            /\ accepted_at' = accepted_at
            /\ pc' = IF attempts' < max_attempts THEN "sample" ELSE "after_loop"
    /\ UNCHANGED << config_params, exit_status, tasks, result, failure, RunVars >>

Attempt == \E rs \in DrawSeqs(num_tasks) : AttemptWith(rs)

\* "if attempts >= max_attempts: ... return None"
AfterLoop ==
    /\ pc = "after_loop"
    /\ IF attempts >= max_attempts
       THEN /\ out' = out \cup { Msg("failed_after_max_attempts", 0) }
            /\ result' = ReturnExhausted
            /\ failure' = "exhausted"
            /\ pc' = "returned"
       ELSE /\ out' = out
            /\ result' = result
            /\ failure' = failure
            /\ pc' = "build"
    /\ UNCHANGED << config_params, exit_status, rng, attempts, task_utils, tasks,
                    accepted_at, RunVars >>

\* two values drawn for each task
BuildTaskDrawsTwice(period_ms) ==
    /\ pc = "build"
    /\ Len(tasks) < num_tasks
    /\ tasks' = Append(tasks, TaskConfig(Len(tasks), task_utils, period_ms,
                                         config_params.system_overhead,
                                         config_params.event_type))
    /\ rng' = [rng EXCEPT !.pos = @ + 2]
    /\ UNCHANGED << pc, config_params, out, exit_status, attempts, task_utils, result,
                    failure, accepted_at, RunVars >>

\* one iteration of "for i in range(num_tasks)", random.randint returning period_ms
BuildTaskWith(period_ms) ==
    /\ pc = "build"
    /\ Len(tasks) < num_tasks
    /\ tasks' = Append(tasks, TaskConfig(Len(tasks), task_utils, period_ms,
                                         config_params.system_overhead,
                                         config_params.event_type))
    /\ rng' = [rng EXCEPT !.pos = @ + 1]
    /\ UNCHANGED << pc, config_params, out, exit_status, attempts, task_utils, result,
                    failure, accepted_at, RunVars >>

BuildTask ==
    \E period_ms \in config_params.period_min .. config_params.period_max :
        BuildTaskWith(period_ms)

\* "return json.dumps(config, indent=4)"
ReturnTaskset ==
    /\ pc = "build"
    /\ Len(tasks) = num_tasks
    /\ result' = Some(tasks)
    /\ out' = out \cup (IF verbose THEN { Msg("generated", 0) } ELSE {})
    /\ pc' = "returned"
    /\ UNCHANGED << config_params, exit_status, rng, attempts, task_utils, tasks,
                    failure, accepted_at, RunVars >>

\* main() after the call: "if taskset_json is None: ... return", else the file is written
Finish ==
    /\ pc = "returned"
    /\ out' = out \cup { Msg(IF result = None THEN "generation_failed" ELSE "saved", 0) }
    /\ exit_status' = Some(0)
    /\ pc' = "exit"
    /\ UNCHANGED << config_params, rng, GenLocals, RunVars >>

(***************************************************************************)
(* generate_json().                                                        *)
(***************************************************************************)
\* one iteration of "for line in taskset.strip().split('\n')"
JsonTask ==
    /\ pc = "json"
    /\ Len(tasks) < Len(taskset)
    /\ tasks' = Append(tasks, JsonTaskConfig(Len(tasks), taskset[Len(tasks) + 1],
                                             config_params.system_overhead,
                                             config_params.event_type))
    /\ UNCHANGED << pc, config_params, out, exit_status, rng, attempts, task_utils,
                    result, failure, accepted_at, RunVars >>

JsonReturn ==
    /\ pc = "json"
    /\ Len(tasks) = Len(taskset)
    /\ result' = Some(tasks)
    /\ pc' = "json_returned"
    /\ UNCHANGED << config_params, out, exit_status, rng, attempts, task_utils, tasks,
                    failure, accepted_at, RunVars >>

(***************************************************************************)
(* The program, the values of random.random() and random.randint() being   *)
(* any the generator may return.                                           *)
(***************************************************************************)
Next ==
    \/ LoadConfig
    \/ SetDefaults
    \/ Validate
    \/ CheckRequired
    \/ SeedRandom
    \/ Precheck
    \/ Attempt
    \/ AfterLoop
    \/ BuildTask
    \/ ReturnTaskset
    \/ Finish
    \/ JsonTask
    \/ JsonReturn

Spec == Init /\ [][Next]_vars

(***************************************************************************)
(* The program run twice on the same parameters, the generator returning   *)
(* the values its state determines.                                        *)
(***************************************************************************)
SeededAttempt == AttemptWith(SeededDraws(rng, num_tasks))

SeededBuildTask ==
    BuildTaskWith(SeededRandint(rng, config_params.period_min, config_params.period_max))

\* the program is started again, in the same process state, on the same parameters
Rerun ==
    /\ pc = "exit"
    /\ run = 1
    /\ run' = 2
    /\ saved' = [result |-> result, task_utils |-> task_utils, failure |-> failure,
                 seed |-> config_params.seed, pos |-> rng.pos, exit_status |-> exit_status]
    /\ pc' = "load"
    /\ config_params' = args
    /\ out' = {}
    /\ exit_status' = None
    /\ attempts' = 0
    /\ task_utils' = << >>
    /\ tasks' = << >>
    /\ result' = None
    /\ failure' = "none"
    /\ accepted_at' = 0
    /\ UNCHANGED << rng, args, config_found, verbose, taskset >>

NextSeeded ==
    \/ LoadConfig
    \/ SetDefaults
    \/ Validate
    \/ CheckRequired
    \/ SeedRandom
    \/ Precheck
    \/ SeededAttempt
    \/ AfterLoop
    \/ SeededBuildTask
    \/ ReturnTaskset
    \/ Finish
    \/ Rerun

SpecSeeded == InitSeeded /\ [][NextSeeded]_vars

(***************************************************************************)
(* Properties.                                                             *)
(***************************************************************************)
\* the state belongs to a run of generate_taskset.py
InTasksetRun == pc \notin { "json", "json_returned" }

\* u <= max_task_util, on the numerators and denominators
WithinCeiling(u) == u.n * max_task_util.d <= max_task_util.n * u.d

\* total_utilization / num_tasks > max_task_util
InfeasibleRequest ==
    total_utilization.n * max_task_util.d
        > max_task_util.n * total_utilization.d * num_tasks

\* floor(c * (1 - system_overhead))
ReducedRuntime(c) ==
    LET o == config_params.system_overhead
    IN  (c * (o.d - o.n)) \div o.d

(* C1: whenever generate_taskset builds tasks or returns a taskset, every  *)
(* component of the utilization vector it uses is <= max_task_util; when   *)
(* the retry budget runs out nothing is built and None is returned.        *)
C1_CeilingRespected ==
    InTasksetRun =>
        /\ (pc = "build" \/ tasks # << >> \/ result # None) =>
               /\ task_utils # << >>
               /\ \A j \in 1 .. Len(task_utils) : WithinCeiling(task_utils[j])
        /\ failure = "exhausted" => (tasks = << >> /\ result = None)

\* a taskset is returned after at least one vector was rejected
C1_Witness ==
    /\ pc = "returned"
    /\ result # None
    /\ attempts >= 2

(* C2: if the k-th drawn vector, 1 <= k <= max_attempts, is the first one  *)
(* within the ceiling, the call succeeds and returns a taskset.            *)
C2_FirstValidVectorAccepted ==
    (pc = "returned" /\ accepted_at \in 1 .. max_attempts) =>
        (failure = "none" /\ result # None)

(* C3: if total_utilization / num_tasks > max_task_util, generate_taskset  *)
(* returns None without drawing: it never samples a vector or a period,    *)
(* and the generator is as random.seed left it.                            *)
C3_InfeasibleNoDraws ==
    InTasksetRun =>
        /\ (pc \in { "sample", "after_loop", "build" } \/ failure = "exhausted"
                \/ result # None \/ attempts # 0 \/ rng.pos # 0)
               => ~InfeasibleRequest
        /\ (pc = "returned" /\ InfeasibleRequest) =>
               /\ failure = "infeasible"
               /\ result = None
               /\ rng = [seed |-> config_params.seed[1], pos |-> 0]
               /\ task_utils = << >>
               /\ tasks = << >>

\* the call returned on an infeasible request
C3_Witness ==
    /\ pc = "returned"
    /\ failure = "infeasible"
    /\ InfeasibleRequest

(* C4: what generate_taskset returns when the retry cap is exhausted       *)
(* differs from what it returns when the request is infeasible.            *)
C4_FailuresDistinguishable ==
    (pc = "returned" /\ failure = "exhausted") => result # ReturnInfeasible

(* C5: uunifast returns exactly num_tasks values and their sum is          *)
(* total_utilization.                                                      *)
C5_SumsToTotal ==
    (InTasksetRun /\ attempts > 0) =>
        /\ Len(task_utils) = num_tasks
        /\ LET sum == RSum(task_utils)
           IN  sum.n * total_utilization.d = total_utilization.n * sum.d

\* a vector of MaxTasks non-zero, pairwise different components was drawn
C5_Witness ==
    /\ pc = "build"
    /\ num_tasks = MaxTasks
    /\ \A j \in 1 .. Len(task_utils) : task_utils[j].n > 0
    /\ \A j, k \in 1 .. Len(task_utils) : j # k => task_utils[j] # task_utils[k]

(* C6: a second run with the same parameters and the same seed draws as    *)
(* many values as the first and ends with the same utilization vector,     *)
(* the same outcome and the same taskset.                                  *)
C6_Deterministic ==
    (run = 2 /\ pc = "exit" /\ config_params.seed = saved.seed) =>
        /\ result = saved.result
        /\ task_utils = saved.task_utils
        /\ failure = saved.failure
        /\ rng.pos = saved.pos
        /\ exit_status = saved.exit_status

\* two runs with the same seed both returned a taskset, after a rejection
C6_Witness ==
    /\ run = 2
    /\ pc = "exit"
    /\ config_params.seed = saved.seed
    /\ result # None
    /\ attempts >= 2

\* the run got past the validation of period_distribution and period_gran
Validated ==
    /\ InTasksetRun
    /\ pc \notin { "load", "defaults", "validate" }
    /\ Msg("config_not_found", 0) \notin out

(* C7 as stated: a run is rejected exactly when the effective              *)
(* period_distribution is not "uniform" or the effective period_gran is    *)
(* not 1.                                                                  *)
C7_RejectedUnlessUniform ==
    Validated =>
        (exit_status = Some(-1) <=>
            (\/ config_params.period_distribution # Some("uniform")
             \/ config_params.period_gran # Some(1)))

(* C7 amended: a run whose configuration file is found is rejected with    *)
(* sys.exit(-1) exactly when the effective period_distribution is not      *)
(* "unif" or the effective period_gran is not 1; the rejection happens     *)
(* before random.seed and before any draw; a run that is not rejected and  *)
(* has its required parameters goes on to seed the generator and to call   *)
(* generate_taskset.                                                       *)
C7_RejectedUnlessUnif ==
    Validated =>
        /\ exit_status = Some(-1) <=>
               (\/ config_params.period_distribution # Some("unif")
                \/ config_params.period_gran # Some(1))
        /\ exit_status = Some(-1) =>
               (rng = Unseeded /\ attempts = 0 /\ task_utils = << >> /\ tasks = << >>)
        /\ (pc = "exit" /\ exit_status # Some(-1) /\ config_params.cpus # None) =>
               (rng.seed = config_params.seed[1] /\ (failure # "none" \/ result # None))

\* a run asking for the distribution "uniform" at granularity 1 was rejected
C7_Witness ==
    /\ pc = "exit"
    /\ exit_status = Some(-1)
    /\ config_params.period_distribution = Some("uniform")
    /\ config_params.period_gran = Some(1)

(* C8: the workload-event value of every task built by generate_taskset    *)
(* and by generate_json is max(10, floor(dl_runtime * (1 -                 *)
(* system_overhead))).                                                     *)
C8_RuntimeFloor ==
    \A j \in 1 .. Len(tasks) :
        /\ tasks[j].value >= 10
        /\ tasks[j].value =
               IF ReducedRuntime(tasks[j].dl_runtime) < 10
               THEN 10
               ELSE ReducedRuntime(tasks[j].dl_runtime)

\* generate_taskset returned a task raised to the minimum and one above it
C8_Witness ==
    /\ pc = "returned"
    /\ result # None
    /\ \E j, k \in 1 .. Len(tasks) :
          /\ tasks[j].dl_runtime > 0
          /\ ReducedRuntime(tasks[j].dl_runtime) < 10
          /\ tasks[j].value = 10
          /\ ReducedRuntime(tasks[k].dl_runtime) > 10
          /\ tasks[k].value = ReducedRuntime(tasks[k].dl_runtime)

(* C9: the dl-runtime of every task of a taskset generate_taskset returns  *)
(* is strictly positive.                                                   *)
C9_PositiveComputationTime ==
    (InTasksetRun /\ pc = "returned" /\ result # None) =>
        \A j \in 1 .. Len(tasks) : tasks[j].dl_runtime > 0

(* C10: task i has dl-runtime floor(u_i * period_i), u_i the i-th          *)
(* component of the accepted vector and period_i = 1000 * p for an integer *)
(* p in period_min_ms .. period_max_ms, and dl-deadline period_i.          *)
C10_RuntimeFromUtilization ==
    InTasksetRun =>
        \A j \in 1 .. Len(tasks) :
            /\ tasks[j].name = j - 1
            /\ \E p \in config_params.period_min .. config_params.period_max :
                   tasks[j].dl_period = 1000 * p
            /\ tasks[j].dl_deadline = tasks[j].dl_period
            /\ tasks[j].dl_runtime =
                   (task_utils[j].n * tasks[j].dl_period) \div task_utils[j].d

\* a returned taskset whose tasks differ in utilization and in period
C10_Witness ==
    /\ pc = "returned"
    /\ result # None
    /\ \E j, k \in 1 .. Len(tasks) :
          /\ j < k
          /\ task_utils[j] # task_utils[k]
          /\ tasks[j].dl_period # tasks[k].dl_period
          /\ tasks[j].dl_runtime > 0
          /\ tasks[k].dl_runtime > 0

(* C11: the seed the generator is seeded with is printed in every run,     *)
(* given on the command line or time-derived, verbose or not.              *)
C11_SeedReported ==
    (InTasksetRun /\ rng # Unseeded) => Msg("seed", rng.seed) \in out

(* C12: the values of one generator are drawn in a fixed order: every      *)
(* utilization vector, rejected or accepted, is drawn before the first     *)
(* period; then one period is drawn for each task, in the order of the     *)
(* task indices 0 .. num_tasks-1, and no vector is drawn after a period.   *)
C12_DrawOrder ==
    [][ InTasksetRun =>
          /\ attempts' # attempts =>
                 /\ tasks = << >> /\ tasks' = << >>
                 /\ attempts' = attempts + 1
                 /\ rng'.seed = rng.seed
                 /\ rng'.pos = rng.pos + (num_tasks - 1)
          /\ tasks # << >> => (task_utils' = task_utils /\ attempts' = attempts)
          /\ tasks' # tasks =>
                 /\ Len(tasks') = Len(tasks) + 1
                 /\ SubSeq(tasks', 1, Len(tasks)) = tasks
                 /\ tasks'[Len(tasks')].name = Len(tasks)
                 /\ rng'.seed = rng.seed
                 /\ rng'.pos = rng.pos + 1
                 /\ rng'.pos = attempts * (num_tasks - 1) + Len(tasks')
          /\ (rng'.seed = rng.seed /\ rng'.pos # rng.pos) =>
                 (attempts' # attempts \/ tasks' # tasks)
          /\ (pc' = "returned" /\ result' # None) =>
                 /\ Len(tasks') = num_tasks
                 /\ rng'.pos = attempts' * (num_tasks - 1) + num_tasks
      ]_vars

\* a taskset of several tasks was returned after a rejected vector
C12_Witness ==
    /\ pc = "returned"
    /\ result # None
    /\ attempts >= 2
    /\ num_tasks >= 2
    /\ rng.pos = attempts * (num_tasks - 1) + num_tasks

(* C13: the sampling loop ends: every iteration counts one more attempt,   *)
(* at most 1000 vectors are drawn, and when none of the 1000 is within the *)
(* ceiling the call returns None without drawing a period or building a    *)
(* task.                                                                   *)
C13_BoundedSampling ==
    [][ InTasksetRun =>
          /\ attempts' <= 1000
          /\ pc' = "sample" => attempts' < 1000
          /\ (pc = "sample" /\ pc' = "sample") => attempts' = attempts + 1
          /\ (pc = "sample" /\ pc' # "sample") =>
                 (pc' = "after_loop" /\ attempts' = attempts + 1)
          /\ (failure' = "exhausted" /\ accepted_at' = 0) =>
                 /\ attempts' = 1000
                 /\ tasks' = << >>
                 /\ result' = None
                 /\ rng'.pos = 1000 * (num_tasks - 1)
      ]_vars

\* the call returned after 1000 rejected vectors
C13_Witness ==
    /\ pc = "returned"
    /\ failure = "exhausted"
    /\ accepted_at = 0
    /\ attempts = 1000
    /\ num_tasks >= 2

(* C14: the workload-event value of every task built by generate_taskset   *)
(* and by generate_json is at most the task's dl-runtime.                  *)
C14_EventWithinBudget ==
    \A j \in 1 .. Len(tasks) : tasks[j].value <= tasks[j].dl_runtime

(* C15: generate_json, given the (dl-runtime, period, deadline) triples of *)
(* the tasks generate_taskset built and the same system_overhead and       *)
(* event_type, builds for every index the same task name, phase key,       *)
(* dl-runtime, dl-period, dl-deadline, workload event and timer period.    *)
C15_VariantsAgree ==
    (InTasksetRun /\ pc = "returned" /\ result # None) =>
        \A j \in 1 .. Len(tasks) :
            LET t == tasks[j]
                e == JsonTaskConfig(j - 1, << t.dl_runtime, t.dl_period, t.dl_deadline >>,
                                    config_params.system_overhead,
                                    config_params.event_type)
            IN  /\ e.name = t.name
                /\ e.phase = t.phase
                /\ e.dl_runtime = t.dl_runtime
                /\ e.dl_period = t.dl_period
                /\ e.dl_deadline = t.dl_deadline
                /\ e.event = t.event
                /\ e.value = t.value
                /\ e.timer_period = t.timer_period

=============================================================================
